---- MODULE Spec2Model ----
(***************************************************************************)
(* The in-memory IMAP mailbox of localmail (localmail/inbox.py): the UID   *)
(* allocator, MemoryIMAPMailbox and the part of Message the mailbox uses.  *)
(*                                                                         *)
(* A message is a record [uid, flags]; its parsed document and its date    *)
(* are never read by the mailbox operations and are left out.  A Python    *)
(* dict is a function from its keys; a Python list is a sequence.  A call  *)
(* of a mailbox method is one step: it leaves its arguments, its return    *)
(* value and the exception it raised (if any) in op, and the caller's      *)
(* taking of the result (Return) clears op before the next call.           *)
(***************************************************************************)
EXTENDS Integers, Sequences, FiniteSets, TLC

VARIABLES
    msgs,           \* MemoryIMAPMailbox.msgs: list of Message, arrival order
    LAST_UID,       \* module global LAST_UID
    UID_GENERATOR,  \* next value itertools.count() will yield
    mbox,           \* MemoryIMAPMailbox.mbox: the mbox mirror (closed = None),
                    \* the documents in its file, those held in the write
                    \* buffer of the file and whether a sync waits for flush
    issued,         \* history: UIDs given to delivered messages, in delivery order
    op,             \* the call that has just returned (or NoOp)
    before,         \* history: msgs when the first store of a pair was called
    th              \* the calls running on threads, each with its locals

vars == <<msgs, LAST_UID, UID_GENERATOR, mbox, issued, op, before, th>>

---------------------------------------------------------------------------
(* Bounds of the model *)

MaxUid == 3         \* deliveries stop when LAST_UID reaches MaxUid
MaxMsgs == 2        \* deliveries stop when the mailbox holds MaxMsgs messages
MaxNum == MaxUid        \* largest number written in a message set

---------------------------------------------------------------------------
(* Flags *)

SEEN == "\\Seen"
UNSEEN == "\\Unseen"
DELETED == "\\Deleted"
FLAGGED == "\\Flagged"
ANSWERED == "\\Answered"
RECENT == "\\Recent"
KEYWORD == "$Label1"    \* an IMAP keyword outside the supported vocabulary

\* MemoryIMAPMailbox.getFlags
getFlags == {SEEN, UNSEEN, DELETED, FLAGGED, ANSWERED, RECENT}

\* the modes of store
REPLACE == 0
ADD == 1
REMOVE == 0 - 1

---------------------------------------------------------------------------
(* Python helpers *)

\* set(list)
ToSet(list) == {list[i] : i \in DOMAIN list}

\* list[j] is defined for -len <= j < len; anything else is an IndexError
IndexOk(list, j) == (0 - Len(list)) <= j /\ j < Len(list)
PyIndex(list, j) == IF j >= 0 THEN list[j + 1] ELSE list[Len(list) + j + 1]

\* position of the first element equal to x (0 if none)
FirstIndex(list, x) ==
    IF \E i \in DOMAIN list : list[i] = x
    THEN CHOOSE i \in DOMAIN list :
            list[i] = x /\ \A j \in 1..(i - 1) : list[j] # x
    ELSE 0

RemoveAt(list, p) == [i \in 1..(Len(list) - 1) |-> IF i < p THEN list[i] ELSE list[i + 1]]

\* a mutation of list_remove: drops the element at the loop index of a list
\* that has already shrunk (here: always the last element)
list_remove_last(list, x) == RemoveAt(list, Len(list))

\* list.remove(x): removes the first element equal to x
list_remove(list, x) == RemoveAt(list, FirstIndex(list, x))

---------------------------------------------------------------------------
(* twisted.mail.imap4.MessageSet as _get_msgs uses it: a set of ranges     *)
(* <<low, high>>, an end being <<n>> for the number n or None for "*".     *)

None == <<>>
Num(n) == <<n>>
Range(l, h) == <<l, h>>

\* msg_set.last = value: "*" becomes value, and each range is put in order
SetLast(msg_set, value) ==
    { LET l == IF r[1] = None THEN value ELSE r[1][1]
          h == IF r[2] = None THEN value ELSE r[2][1]
      IN  IF l > h THEN <<h, l>> ELSE <<l, h>> : r \in msg_set }

\* iter(msg_set) / set(msg_set), once last is set
Iterate(ranges) == UNION { r[1]..r[2] : r \in ranges }

HasStar(msg_set) == \E r \in msg_set : r[1] = None \/ r[2] = None

---------------------------------------------------------------------------
(* The UID allocator *)

\* a mutation of get_counter: the UID is one more than the mailbox's
\* largest, so the UID of an expunged newest message is given again
get_counter_reuse ==
    [gen |-> UID_GENERATOR + 1,
     uid |-> IF msgs = <<>> THEN 1 ELSE msgs[Len(msgs)].uid + 1]

\* get_counter: LAST_UID = next(UID_GENERATOR); return LAST_UID
get_counter == [gen |-> UID_GENERATOR + 1, uid |-> UID_GENERATOR]

\* a mutation of getUIDNext: one more than the number of messages
getUIDNext_count == Len(msgs) + 1

\* MemoryIMAPMailbox.getUIDNext
getUIDNext == LAST_UID + 1

\* MemoryIMAPMailbox.getUID(messageNum): an IndexError where IndexOk fails
getUID(messageNum) == PyIndex(msgs, messageNum - 1).uid

---------------------------------------------------------------------------
(* Results of calls *)

NoError == "none"
IndexError == "IndexError"

Ok(value) == [ret |-> value, err |-> NoError]
ValueError == "ValueError"
Raise(e) == [ret |-> <<>>, err |-> e]

\* the threads that call the mailbox, and a thread that is in no call
Threads == {"a", "b"}
NoCall == [pc |-> "none", flags |-> <<>>, n |-> 0, uid |-> 0,
           snapshot |-> <<>>, i |-> 0, removed |-> <<>>, err |-> NoError]

\* self.mbox = None
NoMirror == [open |-> FALSE, entries |-> <<>>, pending |-> FALSE,
             buffer |-> <<>>]

NoOp == [name |-> "none", set |-> {}, uid |-> FALSE, flags |-> <<>>,
         mode |-> 0, ret |-> <<>>, err |-> NoError]

---------------------------------------------------------------------------
(* MemoryIMAPMailbox._get_msgs *)

\* enumerate(list): 0-based
enumerate(list) == [i \in 0..(Len(list) - 1) |-> list[i + 1]]

\* a mutation of uid_last: "*" is the largest UID in the mailbox
uid_last_in_mailbox == msgs[Len(msgs)].uid

\* the value "*" takes with UID addressing (msg_set.last = LAST_UID)
uid_last == LAST_UID

\* a mutation of get_msgs_uid: the position, not the UID, is looked up
get_msgs_uid_by_position(msg_set) ==
    LET uids == Iterate(SetLast(msg_set, uid_last))
        e == enumerate(msgs)
        keys == {i \in DOMAIN e : (i + 1) \in uids}
    IN  Ok([i \in keys |-> e[i]])

\* the uid branch of _get_msgs
get_msgs_uid(msg_set) ==
    LET uids == Iterate(SetLast(msg_set, uid_last))
        e == enumerate(msgs)
        keys == {i \in DOMAIN e : e[i].uid \in uids}
    IN  Ok([i \in keys |-> e[i]])

\* a mutation of get_msgs_seq: self.msgs[i] in place of self.msgs[i - 1]
get_msgs_seq_off_by_one(msg_set) ==
    LET ids == Iterate(SetLast(msg_set, Len(msgs)))
    IN  IF \E i \in ids : ~IndexOk(msgs, i)
        THEN Raise(IndexError)
        ELSE Ok([i \in ids |-> PyIndex(msgs, i)])

\* the sequence-number branch of _get_msgs
get_msgs_seq(msg_set) ==
    LET ids == Iterate(SetLast(msg_set, Len(msgs)))
    IN  IF \E i \in ids : ~IndexOk(msgs, i - 1)
        THEN Raise(IndexError)
        ELSE Ok([i \in ids |-> PyIndex(msgs, i - 1)])

get_msgs(msg_set, uid) ==
    IF msgs = <<>> THEN Ok(<<>>)
    ELSE IF uid THEN get_msgs_uid(msg_set)
    ELSE get_msgs_seq(msg_set)

---------------------------------------------------------------------------
(* MemoryIMAPMailbox.store *)

\* a mutation of store_flag: mode 1 puts the flag in whether or not the
\* mode is 1, so a removal adds
store_flag_always_adds(cur, flag, mode) == cur \cup {flag}

\* one pass of "for flag in flags": mode 1 is append, mode -1 is delete
store_flag(cur, flag, mode) ==
    IF mode = 1 /\ flag \notin cur THEN cur \cup {flag}
    ELSE IF mode = REMOVE /\ flag \in cur THEN cur \ {flag}
    ELSE cur

RECURSIVE store_flags(_, _, _, _)
\* the loop "for flag in flags", from the i-th flag on
store_flags(cur, flags, mode, i) ==
    IF i > Len(flags) THEN cur
    ELSE store_flags(store_flag(cur, flags[i], mode), flags, mode, i + 1)

\* a mutation of store_message: replacing keeps the old flags too
store_message_replace_keeps(old, flags, mode) ==
    IF mode = 0 THEN old \cup ToSet(flags) ELSE store_flags(old, flags, mode, 1)

\* the body of "for seq, msg in messages.items()": the flags msg ends with
store_message(old, flags, mode) ==
    IF mode = 0 THEN ToSet(flags) ELSE store_flags(old, flags, mode, 1)

\* a mutation of PositionOf: the flags of the newest message are written
PositionOf_newest(list, m) == Len(list)

\* the position in list of the Message object m (a Message is one object,
\* told from the others by its uid)
PositionOf(list, m) == CHOOSE p \in DOMAIN list : list[p].uid = m.uid

SetMin(S) == CHOOSE x \in S : \A y \in S : x <= y

RECURSIVE store_loop(_, _, _, _, _, _)
\* "for seq, msg in messages.items()" over the keys still to visit
store_loop(keys, messages, cur, setFlags, flags, mode) ==
    IF keys = {} THEN [msgs |-> cur, ret |-> setFlags, err |-> NoError]
    ELSE LET seq == SetMin(keys)
             p == PositionOf(cur, messages[seq])
             f == store_message(cur[p].flags, flags, mode)
         IN  store_loop(keys \ {seq}, messages,
                        [cur EXCEPT ![p].flags = f],
                        [k \in (DOMAIN setFlags) \cup {seq} |->
                            IF k = seq THEN f ELSE setFlags[k]],
                        flags, mode)

\* the mailbox and the return value store leaves; setFlags holds references
\* to the flag sets, so an entry shows the flags its message ends with
store_result(msg_set, flags, mode, uid) ==
    LET messages == get_msgs(msg_set, uid)
    IN  IF messages.err # NoError
        THEN [msgs |-> msgs, ret |-> <<>>, err |-> messages.err]
        ELSE LET r == store_loop(DOMAIN messages.ret, messages.ret, msgs,
                                 <<>>, flags, mode)
             IN  [msgs |-> r.msgs,
                  ret |-> [k \in DOMAIN r.ret |->
                              r.msgs[PositionOf(r.msgs, messages.ret[k])].flags],
                  err |-> NoError]

---------------------------------------------------------------------------
(* MemoryIMAPMailbox.expunge *)

\* a mutation of expunge_loop: the message is deleted at the loop index of
\* the list that is shrinking
RECURSIVE expunge_loop_by_index(_, _, _, _)
expunge_loop_by_index(snapshot, i, cur, removed) ==
    IF i > Len(snapshot) THEN [msgs |-> cur, ret |-> removed]
    ELSE IF DELETED \in snapshot[i].flags /\ i <= Len(cur)
         THEN expunge_loop_by_index(snapshot, i + 1, RemoveAt(cur, i),
                                    Append(removed, cur[i].uid))
         ELSE expunge_loop_by_index(snapshot, i + 1, cur, removed)

RECURSIVE expunge_loop(_, _, _, _)
\* "for i, msg in enumerate(self.msgs[:])" from the i-th message of the copy
expunge_loop(snapshot, i, cur, removed) ==
    IF i > Len(snapshot) THEN [msgs |-> cur, ret |-> removed]
    ELSE IF DELETED \in snapshot[i].flags
         THEN expunge_loop(snapshot, i + 1, list_remove(cur, snapshot[i]),
                           Append(removed, snapshot[i].uid))
         ELSE expunge_loop(snapshot, i + 1, cur, removed)

\* a mutation of expunge_result: the mailbox is emptied
expunge_result_all ==
    [msgs |-> <<>>, ret |-> [i \in DOMAIN msgs |-> msgs[i].uid]]

expunge_result == expunge_loop(msgs, 1, msgs, <<>>)

---------------------------------------------------------------------------
(* Status queries *)

\* MemoryIMAPMailbox.getUnseenCount
getUnseenCount == Cardinality({p \in DOMAIN msgs : UNSEEN \in msgs[p].flags})

---------------------------------------------------------------------------
(* Inputs *)

Nums == 0..MaxNum

\* one range "l:h", "l:*" or "*", or a number, and the sets "1,n"
MsgSets ==
    { {Range(Num(q[1]), Num(q[2]))} : q \in {p \in Nums \X Nums : p[1] <= p[2]} }
    \cup { {Range(Num(l), None)} : l \in Nums }
    \cup { {Range(None, None)} }
    \cup { {Range(Num(1), Num(1)), Range(Num(n), Num(n))} : n \in 3..MaxNum }

FlagLists == {<<>>, <<DELETED>>, <<KEYWORD>>, <<DELETED, KEYWORD>>}
Modes == {REPLACE, ADD, REMOVE}

---------------------------------------------------------------------------
(* The state machine *)

Init ==
    /\ msgs = <<>>
    /\ LAST_UID = 0             \* LAST_UID = next(UID_GENERATOR) at import
    /\ UID_GENERATOR = 1
    /\ mbox = NoMirror
    /\ issued = <<>>
    /\ op = NoOp
    /\ before = <<>>
    /\ th = [t \in Threads |-> NoCall]

Idle == op.name = "none"

\* in the file of the mirror a document is the UID of its Message, and a
\* part of a document that a reader of the file lists as a document of its
\* own is Fragment(uid)
Fragment(uid) == 0 - uid

\* bytes of the document of uid held in the write buffer of the file:
\* completes says that the file has the whole document once they are in it
Held(uid, completes) == [uid |-> uid, completes |-> completes]

\* what a reader of the file lists of a document: nothing, a fragment or
\* the whole of it
Shown == {"none", "fragment", "whole"}

\* the documents of the file once the document of uid shows in it as how
show(entries, uid, how) ==
    LET whole == \E i \in DOMAIN entries : entries[i] = uid
        fragment == \E i \in DOMAIN entries : entries[i] = Fragment(uid)
    IN  IF how = "none" \/ whole THEN entries
        ELSE IF fragment
        THEN IF how = "whole"
             THEN [i \in DOMAIN entries |->
                     IF entries[i] = Fragment(uid) THEN uid ELSE entries[i]]
             ELSE entries
        ELSE Append(entries, IF how = "whole" THEN uid ELSE Fragment(uid))

\* the first k items of the buffer are written to the file, in order
RECURSIVE file_write(_, _)
file_write(mirror, k) ==
    IF k = 0 THEN mirror
    ELSE LET item == Head(mirror.buffer)
         IN  file_write(
                 [mirror EXCEPT
                     !.entries = show(@, item.uid, IF item.completes THEN "whole"
                                                   ELSE "fragment"),
                     !.buffer = Tail(@)],
                 k - 1)

\* the file object of the mirror writes out its buffer
file_flush(mirror) == file_write(mirror, Len(mirror.buffer))

\* self.mbox.add(msg.msg): what the buffer holds and the document are
\* written to the file, and a sync waits
mbox_add(mirror, msg) ==
    [file_flush(mirror) EXCEPT !.entries = Append(@, msg.uid), !.pending = TRUE]

\* flush(): self.mbox.flush(), when there is a mirror, does nothing unless
\* a sync waits; then it writes the buffer out and syncs the file
flush(mirror) ==
    IF mirror.open /\ mirror.pending
    THEN [file_flush(mirror) EXCEPT !.pending = FALSE]
    ELSE mirror

\* (the buffer holds one document at most: a document is written or held
\* only after all of the buffer is written)
\* how far a write-out that fails has come: done items of the buffer are
\* in the file, and of the next item, which stays in the buffer, the file
\* shows what part says
WriteOutcomes == [done : 0..1, part : Shown]

\* what mbox.add that raises has done: the write-out of the buffer as
\* above, and of the new document the file shows what new says while held
\* says what the buffer keeps of it: nothing, the rest of it, or a piece
\* that does not complete it
Outcomes == [done : 0..1, part : Shown, new : Shown,
             held : {"none", "rest", "piece"}]
Clean == [done |-> 0, part |-> "none", new |-> "none", held |-> "none"]

\* the outcomes the mirror allows: the buffer is written in order, the
\* new document is written or held only after all of the buffer is written,
\* and a document the file shows whole while mbox.add raised has its last
\* bytes still in the buffer
Possible(mirror, out) ==
    /\ out.done <= Len(mirror.buffer)
    /\ out.part # "none" => out.done < Len(mirror.buffer)
    /\ out.done < Len(mirror.buffer) =>
           (out.new = "none" /\ out.held = "none")
    /\ out.new = "whole" => out.held = "rest"

\* a write-out of the buffer that fails as out says
write_fails(mirror, out) ==
    LET w == file_write(mirror, out.done)
    IN  IF out.part = "none" THEN w
        ELSE [w EXCEPT !.entries = show(@, Head(w.buffer).uid, out.part)]

\* self.mbox.add(msg.msg) that raises: no sync waits for it
mbox_add_raises(mirror, msg, out) ==
    LET w == write_fails(mirror, out)
    IN  [w EXCEPT !.entries = show(@, msg.uid, out.new),
                  !.buffer = IF out.held = "none" THEN @
                             ELSE Append(@, Held(msg.uid, out.held = "rest"))]

\* flush() that raises: the sync still waits, and the write-out of the
\* buffer has come as far as out says (all of it when the sync failed)
flush_raises(mirror, out) == write_fails(mirror, out)

\* Message.__init__(fp, flags, date): the new message and the allocator's
\* generator after self.uid = get_counter()
Message(flags) ==
    LET c == get_counter
    IN  [msg |-> [uid |-> c.uid, flags |-> ToSet(flags)], gen |-> c.gen]

\* addMessage(msg_fp, flags): Message.__init__ takes the UID, then the
\* message goes to the mirror, if there is one, and to the list
addMessage(flags) ==
    /\ Idle
    /\ LAST_UID < MaxUid
    /\ Len(msgs) < MaxMsgs
    /\ LET made == Message(flags)
           msg == made.msg
       IN  /\ UID_GENERATOR' = made.gen
           /\ LAST_UID' = msg.uid
           /\ mbox' = flush(IF mbox.open THEN mbox_add(mbox, msg) ELSE mbox)
           /\ msgs' = Append(msgs, msg)
           /\ issued' = Append(issued, msg.uid)
           /\ op' = [NoOp EXCEPT !.name = "addMessage", !.flags = flags]
    /\ UNCHANGED <<before, th>>

\* fetch(msg_set, uid): list(messages.items()), kept as the mapping
fetch(msg_set, uid) ==
    /\ Idle
    /\ LET messages == get_msgs(msg_set, uid)
       IN  op' = [NoOp EXCEPT !.name = "fetch", !.set = msg_set, !.uid = uid,
                              !.ret = messages.ret, !.err = messages.err]
    /\ UNCHANGED <<msgs, LAST_UID, UID_GENERATOR, mbox, issued, before, th>>

\* store(msg_set, flags, mode, uid), whenever it is called
store_call(msg_set, flags, mode, uid) ==
    /\ LET r == store_result(msg_set, flags, mode, uid)
       IN  /\ msgs' = r.msgs
           /\ op' = [name |-> "store", set |-> msg_set, uid |-> uid,
                     flags |-> flags, mode |-> mode, ret |-> r.ret,
                     err |-> r.err]
    /\ UNCHANGED <<LAST_UID, UID_GENERATOR, mbox, issued, th>>

store(msg_set, flags, mode, uid) ==
    /\ Idle
    /\ store_call(msg_set, flags, mode, uid)
    /\ UNCHANGED before

\* expunge(): flush() syncs the mirror and changes nothing it holds
expunge_call ==
    /\ LET r == expunge_result
       IN  /\ msgs' = r.msgs
           /\ op' = [NoOp EXCEPT !.name = "expunge", !.ret = r.ret]
    /\ mbox' = flush(mbox)
    /\ UNCHANGED <<LAST_UID, UID_GENERATOR, issued, th>>

expunge ==
    /\ Idle
    /\ expunge_call
    /\ UNCHANGED before

\* the caller takes the result of the call
Return ==
    /\ ~Idle
    /\ op' = NoOp
    /\ UNCHANGED <<msgs, LAST_UID, UID_GENERATOR, mbox, issued, before, th>>

Deliver == \E flags \in FlagLists : addMessage(flags)
Fetch == \E msg_set \in MsgSets, uid \in BOOLEAN : fetch(msg_set, uid)
Store == \E msg_set \in MsgSets, flags \in FlagLists, mode \in Modes,
            uid \in BOOLEAN : store(msg_set, flags, mode, uid)

Next == Deliver \/ Fetch \/ Store \/ expunge \/ Return

Spec == Init /\ [][Next]_vars

---------------------------------------------------------------------------
(* Calls made in pairs: a client that stores flags with ADD and takes them *)
(* back with REMOVE, and a client that expunges twice.  The second call    *)
(* of a pair is made as soon as the first has returned; before keeps the   *)
(* messages the first call found.                                          *)

\* store(msg_set, flags, 1, uid)
store_add(msg_set, flags, uid) ==
    /\ Idle
    /\ store_call(msg_set, flags, ADD, uid)
    /\ before' = msgs

\* store(msg_set, flags, -1, uid) after store(msg_set, flags, 1, uid)
store_remove_same ==
    /\ op.name = "store" /\ op.mode = ADD
    /\ store_call(op.set, op.flags, REMOVE, op.uid)
    /\ UNCHANGED before

expunge_first ==
    /\ Idle
    /\ expunge_call
    /\ before' = msgs

\* expunge() after expunge()
expunge_again ==
    /\ op.name = "expunge"
    /\ expunge_call
    /\ UNCHANGED before

StoreAdd == \E msg_set \in MsgSets, flags \in FlagLists, uid \in BOOLEAN :
                store_add(msg_set, flags, uid)

NextPairs ==
    Deliver \/ StoreAdd \/ store_remove_same \/ expunge_first
        \/ expunge_again \/ Return

SpecPairs == Init /\ [][NextPairs]_vars

---------------------------------------------------------------------------
(* The mailbox with its mbox mirror: setFile may be called at any time and *)
(* opens a new, empty file.  A delivery may fail at the statements of      *)
(* addMessage that parse the document or write the mirror, and expunge and *)
(* flush at self.mbox.flush(), which touches the disk, and so can fail,    *)
(* only while a sync waits for it.  A write that fails may leave a part of *)
(* the document in the file and the rest, or a piece, of it in the write   *)
(* buffer of the file, from where a later write takes it to the file; the  *)
(* write-out of the buffer may itself stop part way.                       *)

\* the statements of addMessage that can raise, in the order they run
ParseFails == "email.message_from_binary_file"
AddFails == "mbox.add"
FlushFails == "mbox.flush"
Failures == {ParseFails, AddFails, FlushFails}

\* setFile(path): mailbox.mbox(path) of a new file
setFile ==
    /\ Idle
    /\ mbox' = [NoMirror EXCEPT !.open = TRUE]
    /\ op' = [NoOp EXCEPT !.name = "setFile"]
    /\ UNCHANGED <<msgs, LAST_UID, UID_GENERATOR, issued, before, th>>

\* addMessage(msg_fp, flags) that raises at the statement at: what ran
\* before the statement has happened, what comes after it has not, and
\* self.mbox.add leaves the mirror as out says
addMessage_raises(flags, at, out) ==
    /\ Idle
    /\ LAST_UID < MaxUid
    /\ Len(msgs) < MaxMsgs
    /\ at # ParseFails => mbox.open
    /\ IF at = AddFails THEN Possible(mbox, out) ELSE out = Clean
    /\ LET made == Message(flags)
           msg == made.msg
       IN  /\ UID_GENERATOR' = IF at = ParseFails THEN UID_GENERATOR ELSE made.gen
           /\ LAST_UID' = IF at = ParseFails THEN LAST_UID ELSE msg.uid
           /\ mbox' = IF at = FlushFails THEN mbox_add(mbox, msg)
                      ELSE IF at = AddFails THEN mbox_add_raises(mbox, msg, out)
                      ELSE mbox
           /\ msgs' = IF at = FlushFails THEN Append(msgs, msg) ELSE msgs
           /\ issued' = IF at = FlushFails THEN Append(issued, msg.uid) ELSE issued
           /\ op' = [NoOp EXCEPT !.name = "addMessage", !.flags = flags,
                                 !.err = at]
    /\ UNCHANGED <<before, th>>

\* expunge() that raises at flush(): the messages are removed, the sync
\* that waits fails and nothing is returned
expunge_raises(out) ==
    /\ Idle
    /\ mbox.open /\ mbox.pending
    /\ Possible(mbox, [Clean EXCEPT !.done = out.done, !.part = out.part])
    /\ msgs' = expunge_result.msgs
    /\ mbox' = flush_raises(mbox, out)
    /\ op' = [NoOp EXCEPT !.name = "expunge", !.err = FlushFails]
    /\ UNCHANGED <<LAST_UID, UID_GENERATOR, issued, before, th>>

\* flush(), called by the server
call_flush ==
    /\ Idle
    /\ mbox' = flush(mbox)
    /\ op' = [NoOp EXCEPT !.name = "flush"]
    /\ UNCHANGED <<msgs, LAST_UID, UID_GENERATOR, issued, before, th>>

\* flush() that raises
call_flush_raises(out) ==
    /\ Idle
    /\ mbox.open /\ mbox.pending
    /\ Possible(mbox, [Clean EXCEPT !.done = out.done, !.part = out.part])
    /\ mbox' = flush_raises(mbox, out)
    /\ op' = [NoOp EXCEPT !.name = "flush", !.err = FlushFails]
    /\ UNCHANGED <<msgs, LAST_UID, UID_GENERATOR, issued, before, th>>

DeliverFails == \E flags \in FlagLists, at \in Failures, out \in Outcomes :
                    addMessage_raises(flags, at, out)
ExpungeFails == \E out \in WriteOutcomes : expunge_raises(out)
FlushRaises == \E out \in WriteOutcomes : call_flush_raises(out)

\* store("1:*", flags, mode, False): the mirror is the same however a store
\* addresses the messages, and here a store addresses all of them
StoreAll == \E flags \in FlagLists, mode \in Modes :
                store({Range(Num(1), None)}, flags, mode, FALSE)

NextMirror ==
    setFile \/ Deliver \/ DeliverFails \/ StoreAll \/ expunge \/ ExpungeFails
        \/ call_flush \/ FlushRaises \/ Return

SpecMirror == Init /\ [][NextMirror]_vars

\* the mailbox with its mirror while every write to the disk succeeds
NextMirrorWorks ==
    setFile \/ Deliver \/ Store \/ expunge \/ call_flush \/ Return

SpecMirrorWorks == Init /\ [][NextMirrorWorks]_vars

---------------------------------------------------------------------------
(* The mailbox called from threads.  Nothing in inbox.py takes a lock, so  *)
(* a call running on one thread can be suspended between any two of its    *)
(* statements while a call on another thread runs.  A step is one          *)
(* statement that reads or writes the shared state: the module globals     *)
(* UID_GENERATOR and LAST_UID and the list self.msgs.  th[t] holds the     *)
(* position and the locals of the call on thread t.  A Message is one      *)
(* object: obj tells it from a message that has the same UID and flags.    *)
(* No mirror is configured.                                                *)

InAddMessage(t) == th[t].pc \in {"assign", "return", "append"}

\* addMessage(msg_fp, flags) is called on thread t and runs up to the right
\* side of "LAST_UID = next(UID_GENERATOR)" in get_counter
t_next(t, flags) ==
    /\ th[t].pc = "none"
    /\ UID_GENERATOR <= MaxUid
    /\ Len(msgs) + Cardinality({u \in Threads : InAddMessage(u)}) < MaxMsgs
    /\ th' = [th EXCEPT ![t] = [NoCall EXCEPT !.pc = "assign", !.flags = flags,
                                              !.n = UID_GENERATOR]]
    /\ UID_GENERATOR' = UID_GENERATOR + 1
    /\ UNCHANGED <<msgs, LAST_UID, mbox, issued, op, before>>

\* the assignment of "LAST_UID = next(UID_GENERATOR)"
t_assign(t) ==
    /\ th[t].pc = "assign"
    /\ LAST_UID' = th[t].n
    /\ th' = [th EXCEPT ![t].pc = "return"]
    /\ UNCHANGED <<msgs, UID_GENERATOR, mbox, issued, op, before>>

\* "return LAST_UID", and "self.uid = get_counter()" in Message.__init__
t_return(t) ==
    /\ th[t].pc = "return"
    /\ th' = [th EXCEPT ![t].pc = "append", ![t].uid = LAST_UID]
    /\ issued' = Append(issued, LAST_UID)
    /\ UNCHANGED <<msgs, LAST_UID, UID_GENERATOR, mbox, op, before>>

\* "self.msgs.append(msg)"; flush() does nothing without a mirror, and
\* addMessage returns None
t_append(t) ==
    /\ th[t].pc = "append"
    /\ msgs' = Append(msgs, [uid |-> th[t].uid, flags |-> ToSet(th[t].flags),
                             obj |-> th[t].n])
    /\ th' = [th EXCEPT ![t] = NoCall]
    /\ UNCHANGED <<LAST_UID, UID_GENERATOR, mbox, issued, op, before>>

\* expunge() is called on thread t: "removed = []" and the copy
\* "self.msgs[:]" the loop walks
t_expunge(t) ==
    /\ th[t].pc = "none"
    /\ th' = [th EXCEPT ![t] = [NoCall EXCEPT !.pc = "loop", !.snapshot = msgs,
                                              !.i = 1]]
    /\ UNCHANGED <<msgs, LAST_UID, UID_GENERATOR, mbox, issued, op, before>>

\* one turn of the loop of expunge, or its end: list.remove raises
\* ValueError when the message is no longer in the list
t_loop(t) ==
    /\ th[t].pc = "loop"
    /\ LET c == th[t]
           msg == c.snapshot[c.i]
       IN  IF c.i > Len(c.snapshot)
           THEN /\ th' = [th EXCEPT ![t].pc = "returned"]
                /\ msgs' = msgs
           ELSE IF DELETED \notin msg.flags
           THEN /\ th' = [th EXCEPT ![t].i = c.i + 1]
                /\ msgs' = msgs
           ELSE IF FirstIndex(msgs, msg) = 0
           THEN /\ th' = [th EXCEPT ![t].pc = "returned", ![t].err = ValueError]
                /\ msgs' = msgs
           ELSE /\ msgs' = list_remove(msgs, msg)
                /\ th' = [th EXCEPT ![t].i = c.i + 1,
                                    ![t].removed = Append(c.removed, msg.uid)]
    /\ UNCHANGED <<LAST_UID, UID_GENERATOR, mbox, issued, op, before>>

\* the caller on thread t takes the result of expunge, or its exception
t_result(t) ==
    /\ th[t].pc = "returned"
    /\ th' = [th EXCEPT ![t] = NoCall]
    /\ UNCHANGED <<msgs, LAST_UID, UID_GENERATOR, mbox, issued, op, before>>

ThreadFlagLists == {<<>>, <<DELETED>>}

NextThreads ==
    \E t \in Threads :
        \/ \E flags \in ThreadFlagLists : t_next(t, flags)
        \/ t_assign(t)
        \/ t_return(t)
        \/ t_append(t)
        \/ t_expunge(t)
        \/ t_loop(t)
        \/ t_result(t)

SpecThreads == Init /\ [][NextThreads]_vars

---------------------------------------------------------------------------
(* Properties *)

Last(list) == list[Len(list)]
IsDeleted(m) == DELETED \in m.flags
NotDeleted(m) == DELETED \notin m.flags
UidsOf(list) == [i \in DOMAIN list |-> list[i].uid]
Values(f) == {f[k] : k \in DOMAIN f}

\* the numbers a message set asks for when "*" stands for value
Requested(msg_set, value) == Iterate(SetLast(msg_set, value))

\* C1: the UIDs given to delivered messages are strictly increasing in
\* delivery order, so none is given twice, whatever was expunged meanwhile;
\* every message in the mailbox carries the UID it was given.
C1_UidsStrictlyIncreasing ==
    /\ \A i, j \in DOMAIN issued : i < j => issued[i] < issued[j]
    /\ \A p \in DOMAIN msgs : \E i \in DOMAIN issued : issued[i] = msgs[p].uid
    /\ \A p, q \in DOMAIN msgs : p # q => msgs[p].uid # msgs[q].uid

\* a delivery made after two earlier messages were expunged
C1_Witness ==
    /\ op.name = "addMessage"
    /\ Len(issued) = 3
    /\ Len(msgs) = 1
    /\ msgs[1].uid = issued[3]

\* C2: expunge removes exactly the messages that carry \Deleted when it is
\* called, returns their UIDs in arrival order and leaves the others in
\* their order.
C2_ExpungeRemovesDeleted ==
    [][op'.name = "expunge" =>
          /\ op'.err = NoError
          /\ msgs' = SelectSeq(msgs, NotDeleted)
          /\ op'.ret = UidsOf(SelectSeq(msgs, IsDeleted))]_vars

\* an expunge that removed a message and left a later one
C2_Witness ==
    /\ op.name = "expunge"
    /\ Len(op.ret) = 1
    /\ Len(msgs) = 1
    /\ op.ret[1] < msgs[1].uid

\* C3: resolving 1:* by sequence number gives every message under its
\* 1-based position in the mailbox, in arrival order, with no gaps.
C3_SequenceNumbersArePositions ==
    (op.name = "fetch" /\ ~op.uid /\ op.set = {Range(Num(1), None)}) =>
        /\ op.err = NoError
        /\ op.ret = [k \in 1..Len(msgs) |-> msgs[k]]
        /\ \A j, k \in 1..Len(msgs) : j < k => op.ret[j].uid < op.ret[k].uid

\* A (UID 1) and B (UID 2) delivered, A expunged, 1:* resolved: {1: B}
C3_Witness ==
    /\ op.name = "fetch" /\ ~op.uid /\ op.set = {Range(Num(1), None)}
    /\ issued = <<1, 2>>
    /\ UidsOf(msgs) = <<2>>
    /\ DOMAIN op.ret = {1}
    /\ op.ret[1].uid = 2

\* C4: every entry k -> m of a resolution, in either addressing mode, has
\* m at 1-based position k: getUID(k) is defined and is m's UID.
C4_KeysAreSequenceNumbers ==
    (op.name = "fetch" /\ op.err = NoError) =>
        \A k \in DOMAIN op.ret :
            IndexOk(msgs, k - 1) /\ getUID(k) = op.ret[k].uid

\* C5: with sequence-number addressing on a non-empty mailbox the call
\* returns normally, with exactly the requested numbers in 1..len(msgs),
\* each bound to the message at that position.
C5_OutOfRangeNumbersDropped ==
    (op.name = "fetch" /\ ~op.uid /\ msgs # <<>>) =>
        /\ op.err = NoError
        /\ DOMAIN op.ret = Requested(op.set, Len(msgs)) \cap (1..Len(msgs))
        /\ \A k \in DOMAIN op.ret : k \in DOMAIN msgs /\ op.ret[k] = msgs[k]

\* C6: with UID addressing the result holds exactly the messages in the
\* mailbox whose UID is requested, one entry each, without error; any
\* resolution against an empty mailbox is empty.
C6_UidResolutionExact ==
    /\ (op.name = "fetch" /\ op.uid) =>
          /\ op.err = NoError
          /\ Values(op.ret) =
                {msgs[p] : p \in {q \in DOMAIN msgs :
                                    msgs[q].uid \in Requested(op.set, LAST_UID)}}
          /\ Cardinality(DOMAIN op.ret) = Cardinality(Values(op.ret))
    /\ (op.name = "fetch" /\ msgs = <<>>) =>
          (op.err = NoError /\ op.ret = <<>>)

\* a UID resolution asking for a present UID, an expunged one and one never
\* issued
C6_Witness ==
    /\ op.name = "fetch" /\ op.uid
    /\ op.ret # <<>>
    /\ LET wanted == Requested(op.set, LAST_UID)
           present == {msgs[p].uid : p \in DOMAIN msgs}
       IN  /\ \E u \in wanted : u \in present
           /\ \E u \in wanted : u \in ToSet(issued) \ present
           /\ \E u \in wanted : u > LAST_UID

\* C7: with UID addressing "*" is the last UID the allocator issued: the
\* set {*} selects the message with that UID if it is still in the mailbox
\* and no message if it has been expunged.
C7_UidStarIsLastIssued ==
    (op.name = "fetch" /\ op.uid /\ op.set = {Range(None, None)}
        /\ msgs # <<>>) =>
        /\ op.err = NoError
        /\ Values(op.ret) = {m \in ToSet(msgs) : m.uid = Last(issued)}
        /\ (Last(msgs).uid # Last(issued) => op.ret = <<>>)

\* {*} resolved by UID on a non-empty mailbox whose newest message is gone
C7_Witness ==
    /\ op.name = "fetch" /\ op.uid /\ op.set = {Range(None, None)}
    /\ msgs # <<>>
    /\ Last(msgs).uid < Last(issued)
    /\ op.ret = <<>>

\* C8: with sequence-number addressing on a non-empty mailbox, a set that
\* holds "*" always selects the last message of the mailbox.
C8_SeqStarSelectsLast ==
    (op.name = "fetch" /\ ~op.uid /\ HasStar(op.set) /\ msgs # <<>>) =>
        /\ op.err = NoError
        /\ \E k \in DOMAIN op.ret : op.ret[k] = Last(msgs)

\* C9: getUIDNext() is the last allocated UID plus one, an expunge leaves it
\* as it is, and a delivered message gets the value it had before the
\* delivery.
C9_UidNextIsLastPlusOne ==
    [][/\ (issued # <<>> => getUIDNext = Last(issued) + 1)
       /\ (issued' # <<>> => getUIDNext' = Last(issued') + 1)
       /\ (op'.name = "expunge" => getUIDNext' = getUIDNext)
       /\ (op'.name = "addMessage" =>
              /\ Last(msgs').uid = getUIDNext
              /\ getUIDNext' = getUIDNext + 1)]_vars

\* UIDs 1 and 2 were delivered and expunged, and the next delivery got 3
C9_Witness ==
    /\ op.name = "addMessage"
    /\ issued = <<1, 2, 3>>
    /\ UidsOf(msgs) = <<3>>
    /\ getUIDNext = 4

\* the flag set store is to leave on a message that had old
StoreWant(old, flags, mode) ==
    IF mode = REPLACE THEN ToSet(flags)
    ELSE IF mode = ADD THEN old \cup ToSet(flags)
    ELSE old \ ToSet(flags)

\* C10: a store that returns leaves every addressed message with the given
\* flags (REPLACE), the old flags and the given ones (ADD) or the old flags
\* without the given ones (REMOVE), whatever the flags are, and returns
\* those flag sets for the addressed messages.
C10_StoreAppliesMode ==
    [][(op'.name = "store" /\ op'.err = NoError) =>
          LET g == get_msgs(op'.set, op'.uid).ret
              addressed == {g[k].uid : k \in DOMAIN g}
          IN  /\ Len(msgs') = Len(msgs)
              /\ \A p \in DOMAIN msgs :
                    msgs[p].uid \in addressed =>
                        /\ msgs'[p].uid = msgs[p].uid
                        /\ msgs'[p].flags =
                              StoreWant(msgs[p].flags, op'.flags, op'.mode)
              /\ DOMAIN op'.ret = DOMAIN g
              /\ \A k \in DOMAIN g :
                    op'.ret[k] = StoreWant(g[k].flags, op'.flags, op'.mode)]_vars

\* an ADD of a keyword to a message that carried \Deleted
C10_Witness ==
    /\ op.name = "store" /\ op.err = NoError
    /\ op.mode = ADD
    /\ op.flags = <<KEYWORD>>
    /\ KEYWORD \notin getFlags
    /\ \E k \in DOMAIN op.ret : op.ret[k] = {DELETED, KEYWORD}

---------------------------------------------------------------------------
(* Properties, continued *)

\* C13: getUnseenCount() is the number of messages in the mailbox whose
\* flags do not hold \Seen.
C13_UnseenCountsNotSeen ==
    getUnseenCount = Cardinality({p \in DOMAIN msgs : SEEN \notin msgs[p].flags})

\* C16: a store changes nothing but the flags of the messages its set
\* resolves to: the messages, their order and UIDs, the flags of the other
\* messages and the allocator are as before (a store that raises changes
\* nothing at all).
C16_StoreChangesOnlyAddressedFlags ==
    [][op'.name = "store" =>
          LET g == get_msgs(op'.set, op'.uid)
              addressed == IF g.err = NoError
                           THEN {g.ret[k].uid : k \in DOMAIN g.ret}
                           ELSE {}
          IN  /\ Len(msgs') = Len(msgs)
              /\ \A p \in DOMAIN msgs :
                    /\ msgs'[p].uid = msgs[p].uid
                    /\ (msgs[p].uid \notin addressed =>
                            msgs'[p].flags = msgs[p].flags)
              /\ LAST_UID' = LAST_UID
              /\ issued' = issued]_vars

\* \Deleted stored on message 1 of two: message 1 carries it, message 2
\* does not
C16_Witness ==
    /\ op.name = "store" /\ ~op.uid /\ op.err = NoError
    /\ op.set = {Range(Num(1), Num(1))}
    /\ op.flags = <<DELETED>> /\ op.mode = ADD
    /\ Len(msgs) = 2
    /\ DELETED \in msgs[1].flags
    /\ DELETED \notin msgs[2].flags

\* C17: a message that is in the mailbox before a step and not after it was
\* removed by an expunge and carried \Deleted when the expunge was called;
\* a delivery puts the new message after the others and leaves those as
\* they were.
C17_OnlyExpungeRemoves ==
    [][/\ \A p \in DOMAIN msgs :
             (\A q \in DOMAIN msgs' : msgs'[q].uid # msgs[p].uid) =>
                 (op'.name = "expunge" /\ DELETED \in msgs[p].flags)
       /\ (op'.name = "addMessage" =>
             /\ Len(msgs') = Len(msgs) + 1
             /\ SubSeq(msgs', 1, Len(msgs)) = msgs)]_vars

\* a delivery to a mailbox that holds a message and has lost another
C17_Witness ==
    /\ op.name = "addMessage"
    /\ Len(issued) = 3
    /\ Len(msgs) = 2
    /\ msgs[2].uid = 3

\* the UIDs of the messages a store resolved its set to
AddressedBy(call) ==
    LET g == get_msgs(call.set, call.uid)
    IN  IF g.err = NoError THEN {g.ret[k].uid : k \in DOMAIN g.ret} ELSE {}

StorePair == op.name = "store" /\ op.mode = ADD
                 /\ op'.name = "store" /\ op'.mode = REMOVE

\* C11: a store with mode ADD followed by a store with mode REMOVE of the
\* same flags on the same set leaves every addressed message with the flags
\* it had before the ADD.
C11_AddThenRemoveRestores ==
    [][StorePair =>
          \A p \in DOMAIN msgs :
              msgs[p].uid \in AddressedBy(op) =>
                  msgs'[p].flags = before[p].flags]_vars

\* C11, amended: the pair leaves every addressed message with the flags it
\* had before the ADD less the given flags, which are the flags it had
\* when it carried none of the given flags before the ADD.
C11_AddThenRemoveSubtracts ==
    [][StorePair =>
          /\ Len(msgs') = Len(before)
          /\ \A p \in DOMAIN msgs :
                msgs[p].uid \in AddressedBy(op) =>
                    /\ msgs'[p].flags = before[p].flags \ ToSet(op.flags)
                    /\ (before[p].flags \cap ToSet(op.flags) = {} =>
                            msgs'[p].flags = before[p].flags)]_vars

\* \Deleted added to and taken from a message that carried it and a keyword
C11_Witness ==
    /\ op.name = "store" /\ op.mode = REMOVE /\ op.err = NoError
    /\ op.flags = <<DELETED>>
    /\ Len(msgs) = 1 /\ Len(before) = 1
    /\ DOMAIN op.ret # {}
    /\ before[1].flags = {DELETED, KEYWORD}
    /\ msgs[1].flags = {KEYWORD}

\* C12: an expunge called after an expunge, with no store or delivery in
\* between, returns the empty list and leaves the messages, their order and
\* their flags as they are.
C12_ExpungeIdempotent ==
    [][(op.name = "expunge" /\ op'.name = "expunge") =>
          /\ op'.ret = <<>>
          /\ op'.err = NoError
          /\ msgs' = msgs]_vars

\* the second expunge of a pair whose first removed one message of two
C12_Witness ==
    /\ op.name = "expunge"
    /\ op.ret = <<>>
    /\ Len(before) = 2
    /\ Len(msgs) = 1

\* C19: a mirror that holds exactly the documents of the messages in the
\* mailbox holds exactly those of the messages in the mailbox after a
\* delivery and after an expunge that return: a message an expunge removed
\* is not in the mirror.
C19_MirrorFollowsMailbox ==
    [][(/\ mbox.open /\ mbox.entries = UidsOf(msgs)
        /\ op'.name \in {"addMessage", "expunge"}
        /\ op'.err = NoError) =>
           mbox'.entries = UidsOf(msgs')]_vars

\* C20: an addMessage that raises leaves the messages and their flags, the
\* mirror and getUIDNext() as they were before the call.
C20_FailedDeliveryChangesNothing ==
    [][(op'.name = "addMessage" /\ op'.err # NoError) =>
          /\ msgs' = msgs
          /\ mbox' = mbox
          /\ getUIDNext' = getUIDNext]_vars

\* C14: with deliveries interleaved, every value the allocator returns is
\* greater than every value it returned before, so no two messages get the
\* same UID, and getUIDNext() is greater than every UID issued.
C14_AllocatorSafeUnderThreads ==
    /\ \A i, j \in DOMAIN issued : i < j => issued[i] < issued[j]
    /\ \A i \in DOMAIN issued : getUIDNext > issued[i]

\* C15: calls that overlap behave as calls made one after the other: no
\* call raises, and of two expunge calls that have returned each removed
\* UID is in the result of one only.
C15_CallsAreAtomic ==
    /\ \A t \in Threads : th[t].err = NoError
    /\ \A t, u \in Threads :
          (t # u /\ th[t].pc = "returned" /\ th[u].pc = "returned") =>
              ToSet(th[t].removed) \cap ToSet(th[u].removed) = {}

\* C18: the UIDs of the messages in the mailbox increase with the position,
\* also while deliveries on threads are between taking the UID and
\* appending the message.
C18_MailboxUidsIncrease ==
    \A p, q \in DOMAIN msgs : p < q => msgs[p].uid < msgs[q].uid

====
